---- MODULE Spec2Model ----
(***************************************************************************)
(* Model of the keepass lookup plugin (src/keepass.py): LookupModule.run,  *)
(* LookupModule._entry_to_dict and LookupModule._get_groups, together with *)
(* the part of the pykeepass query interface they call (find_entries,      *)
(* find_groups, Group.path, Entry.path, Entry.history).                    *)
(*                                                                         *)
(* A Python str is modelled as a sequence of one-character strings, so     *)
(* that split, rsplit, path formatting and regular-expression search are   *)
(* computed character by character.                                        *)
(***************************************************************************)
EXTENDS Integers, Sequences, FiniteSets, TLC

VARIABLES
    keepass,           \* self._keepass: the opened store, its groups and entries
    terms,             \* the terms argument of run
    regex,             \* the option regex
    include_password,  \* the option include_password
    pc,                \* where the call stands: "run", "resolve", "convert",
                       \* "done" or "resolved" once returned, "raised" on an exception
    idx,               \* the position of the for loop of run in terms
    ret,               \* the list ret of run
    out,               \* the list run has returned to its caller
    err,               \* the exception that left the call, "none" without one
    gpath,             \* the path argument of _get_groups
    gret,              \* the list _get_groups has returned
    stack,             \* the frames of _entry_to_dict that are active
    sret               \* the record the outermost _entry_to_dict has returned

vars == <<keepass, terms, regex, include_password, pc, idx, ret, out, err,
          gpath, gret, stack, sret>>

(* ---------------------------- bounds ----------------------------------- *)
NumGroups == 3
NumEntries == 2
MaxTerms == 2
MaxHistory == 1
\* the depth of calls the interpreter allows before it raises RecursionError
RecursionLimit == 3

(* ---------------------------- Python str ------------------------------- *)
Slash == "/"

\* the root group; the other groups are numbered from 1
Root == 0
\* the None that find_entries returns; the entries are numbered from 1
NoEntry == 0
GroupIds == 1..NumGroups
AllGroups == 0..NumGroups
EntryIds == 1..NumEntries

HasSlash(s) == \E k \in 1..Len(s) : s[k] = Slash

FirstSlash(s) == CHOOSE k \in 1..Len(s) : s[k] = Slash /\ \A j \in 1..(k-1) : s[j] # Slash

LastSlash(s) == CHOOSE k \in 1..Len(s) : s[k] = Slash /\ \A j \in (k+1)..Len(s) : s[j] # Slash

\* path.split('/', 1) for a path that holds a '/'
Split1(s) == <<SubSeq(s, 1, FirstSlash(s) - 1), SubSeq(s, FirstSlash(s) + 1, Len(s))>>

\* term.rsplit('/', 1) for a term that holds a '/'
RSplit1(s) == <<SubSeq(s, 1, LastSlash(s) - 1), SubSeq(s, LastSlash(s) + 1, Len(s))>>

\* '{}/{}'.format(a, b)
JoinPath(a, b) == a \o <<Slash>> \o b

\* re:test(text, pat): an unanchored search; the patterns are built from
\* literal characters and '.', which stands for any one character
ReSearch(pat, s) ==
    \E off \in 0..(Len(s) - Len(pat)) :
        \A k \in 1..Len(pat) : pat[k] = "." \/ pat[k] = s[off + k]

(* ---------------------------- the group tree --------------------------- *)
RECURSIVE GroupPathFrom(_)
GroupPathFrom(g) ==
    IF keepass.gparent[g] = Root THEN keepass.gname[g]
    ELSE JoinPath(GroupPathFrom(keepass.gparent[g]), keepass.gname[g])

\* Group.path: '/' for the root, the names from below the root otherwise
GroupPath(g) == IF g = Root THEN <<Slash>> ELSE GroupPathFrom(g)

RECURSIVE Depth(_)
Depth(g) == IF g = Root THEN 0 ELSE 1 + Depth(keepass.gparent[g])

RECURSIVE IsUnder(_, _)
\* g is h or a descendant of h
IsUnder(g, h) == g = h \/ (g # Root /\ IsUnder(keepass.gparent[g], h))

RECURSIVE SortedSeq(_)
SortedSeq(S) ==
    IF S = {} THEN <<>>
    ELSE LET m == CHOOSE x \in S : \A y \in S : x <= y
         IN <<m>> \o SortedSeq(S \ {m})

\* the direct child groups of g, in document order
Children(g) == SortedSeq({c \in GroupIds : keepass.gparent[c] = g})

FindGroupsFromRoot(name, parent_group) ==
    SelectSeq(Children(Root), LAMBDA c : ReSearch(name, keepass.gname[c]))

\* find_groups(name=name, group=parent_group, recursive=False, regex=True)
FindGroups(name, parent_group) ==
    SelectSeq(Children(parent_group), LAMBDA c : ReSearch(name, keepass.gname[c]))

RECURSIVE GetGroups(_, _)
RECURSIVE GetGroupsEach(_, _)
\* the loop of _get_groups over the groups matched at this level
GetGroupsEach(subgroups, groups) ==
    IF groups = <<>> THEN <<>>
    ELSE GetGroups(subgroups, Head(groups)) \o GetGroupsEach(subgroups, Tail(groups))

\* _get_groups(path, parent_group)
GetGroups(path, parent_group) ==
    LET name == IF HasSlash(path) THEN Split1(path)[1] ELSE path
        subgroups == IF HasSlash(path) THEN Split1(path)[2] ELSE <<>>
        groups == FindGroups(name, parent_group)
    IN groups \o (IF subgroups # <<>> THEN GetGroupsEach(subgroups, groups) ELSE <<>>)

SeqToSet(s) == {s[k] : k \in 1..Len(s)}

\* the number of '/'-separated segments of a path expression
NumSegments(path) == 1 + Cardinality({k \in 1..Len(path) : path[k] = Slash})

(* ---------------------------- entries ---------------------------------- *)
\* attribute values, tagged with their Python type; repr is what str() gives
Text(s) == [type |-> "text", repr |-> s]
Null == [type |-> "null", repr |-> "None"]
Bool(b) == [type |-> "bool", repr |-> IF b THEN "True" ELSE "False"]
ListOf(r) == [type |-> "list", repr |-> r]
Other(r) == [type |-> "other", repr |-> r]

\* str(value)
Str(v) == Text(v.repr)

SpecialAttributes == {"attachments", "group", "parentgroup", "history"}

\* the non-callable public attributes that dir(entry) lists
EntryAttributes ==
    {"title", "username", "password", "url", "expires", "tags", "uuid"} \cup SpecialAttributes

\* getattr(entry, attr) for the attributes that are passed through
GetAttr(e, attr) ==
    CASE attr = "title" -> Text(keepass.etitle[e])
      [] attr = "username" -> Text("admin")
      [] attr = "password" -> keepass.epassword[e]
      [] attr = "url" -> Null
      [] attr = "expires" -> Bool(FALSE)
      [] attr = "tags" -> ListOf("['prod']")
      [] attr = "uuid" -> Other(ToString(e))

\* [n.filename for n in entry.attachments]
Attachments(e) == IF e = 1 THEN <<"key.pem">> ELSE <<>>

\* Entry.path
EntryPath(e) ==
    IF keepass.egroup[e] = Root THEN keepass.etitle[e]
    ELSE JoinPath(GroupPath(keepass.egroup[e]), keepass.etitle[e])

\* the flag a call of _entry_to_dict hands to the calls for the snapshots
HistoryFlagTrue(inc_password) == TRUE

HistoryFlag(inc_password) == inc_password

\* the attribute list that is left for the final loop of _entry_to_dict
Attributes(inc_password) ==
    (IF inc_password = FALSE THEN EntryAttributes \ {"password"} ELSE EntryAttributes)
        \ SpecialAttributes

\* one call of _entry_to_dict, given the records of the history snapshots
BuildRecord(e, inc_password, history) ==
    [attr \in Attributes(inc_password) \cup SpecialAttributes |->
        CASE attr = "attachments" -> Attachments(e)
          [] attr = "group" -> GroupPath(keepass.egroup[e])
          [] attr = "parentgroup" -> GroupPath(keepass.egroup[e])
          [] attr = "history" -> history
          [] OTHER -> Str(GetAttr(e, attr))]

RECURSIVE EntryToDict(_, _)
\* _entry_to_dict(entry, include_password) on a store whose history is a tree
EntryToDict(e, inc_password) ==
    BuildRecord(e, inc_password,
        [k \in 1..Len(keepass.ehistory[e]) |-> EntryToDict(keepass.ehistory[e][k], HistoryFlag(inc_password))])

RECURSIVE EntriesUnder(_)
RECURSIVE EntriesUnderEach(_)
EntriesUnderEach(groups) ==
    IF groups = <<>> THEN <<>>
    ELSE EntriesUnder(Head(groups)) \o EntriesUnderEach(Tail(groups))

\* the entries of group g and of its subgroups, in document order
EntriesUnder(g) ==
    SortedSeq({e \in EntryIds : keepass.egroup[e] = g}) \o EntriesUnderEach(Children(g))

FindEntriesDirect(title, group) ==
    SelectSeq(SortedSeq({e \in EntryIds : keepass.egroup[e] = group}),
              LAMBDA e : ReSearch(title, keepass.etitle[e]))

\* find_entries(title=title, group=group, regex=True), recursive by default
FindEntries(title, group) ==
    SelectSeq(EntriesUnder(group), LAMBDA e : ReSearch(title, keepass.etitle[e]))

\* find_entries(path=term): the first entry with that path, or None
FindEntryByPath(term) ==
    LET found == SelectSeq(EntriesUnder(Root), LAMBDA e : EntryPath(e) = term)
    IN IF found = <<>> THEN NoEntry ELSE Head(found)

(* ---------------------------- LookupModule.run ------------------------- *)
SeqsUpTo(S, n) == UNION {[1..k -> S] : k \in 0..n}

A == <<"a">>
B == <<"b">>
X == <<"x">>
Y == <<"y">>

\* the terms a caller passes
TermChoices == {X, JoinPath(A, X), JoinPath(JoinPath(A, B), X), JoinPath(A, Y), JoinPath(B, X)}

\* the stores of the lookup: every shape of tree in which a group hangs below
\* the root or below the group before it, with entries titled x
LookupStores ==
    {[gparent |-> gp, gname |-> [g \in GroupIds |-> IF g % 2 = 1 THEN A ELSE B],
      egroup |-> eg, etitle |-> [e \in EntryIds |-> X],
      epassword |-> [e \in EntryIds |-> Text("secret")],
      ehistory |-> [e \in EntryIds |-> <<>>]] :
        gp \in {f \in [GroupIds -> AllGroups] : \A g \in GroupIds : f[g] \in {Root, g - 1}},
        eg \in {f \in [EntryIds -> AllGroups] :
                    \A e1, e2 \in EntryIds : e1 <= e2 => f[e1] <= f[e2]}}

Idle ==
    /\ gpath = <<>> /\ gret = <<>> /\ stack = <<>> /\ sret = <<>>

Init ==
    /\ keepass \in LookupStores
    /\ terms \in (SeqsUpTo(TermChoices, MaxTerms) \ {<<>>})
    /\ regex \in BOOLEAN
    /\ include_password \in BOOLEAN
    /\ pc = "run" /\ idx = 1 /\ ret = <<>> /\ out = <<>> /\ err = "none"
    /\ Idle

RECURSIVE DictsOf(_, _)
\* [_entry_to_dict(entry, include_password) for entry in entries]
DictsOf(entries, inc_password) ==
    IF entries = <<>> THEN <<>>
    ELSE <<EntryToDict(Head(entries), inc_password)>> \o DictsOf(Tail(entries), inc_password)

RECURSIVE EntriesOfGroups(_, _)
\* the loop of run over the candidate groups of one term
EntriesOfGroups(entry_title, groups) ==
    IF groups = <<>> THEN <<>>
    ELSE FindEntries(entry_title, Head(groups)) \o EntriesOfGroups(entry_title, Tail(groups))

\* the candidate groups of a term in regex mode
TermGroups(term) ==
    IF ~HasSlash(term) THEN <<Root>> ELSE GetGroups(RSplit1(term)[1], Root)

\* the title pattern of a term in regex mode
TermTitle(term) == IF ~HasSlash(term) THEN term ELSE RSplit1(term)[2]

\* the entries one term of regex mode appends, in the order of the appends
RegexTermEntries(term) == EntriesOfGroups(TermTitle(term), TermGroups(term))

\* one iteration of the loop of run with regex false
RunExactTerm ==
    /\ pc = "run" /\ idx <= Len(terms) /\ regex = FALSE
    /\ LET entry == FindEntryByPath(terms[idx])
       IN IF entry = NoEntry
          THEN \* raise AnsibleLookupError(...): line 52 does not import the
               \* name, so evaluating it raises NameError
               /\ pc' = "raised" /\ err' = "NameError"
               /\ UNCHANGED <<idx, ret>>
          ELSE /\ ret' = Append(ret, EntryToDict(entry, include_password))
               /\ idx' = idx + 1
               /\ UNCHANGED <<pc, err>>
    /\ UNCHANGED <<keepass, terms, regex, include_password, out, gpath, gret, stack, sret>>

\* one iteration of the loop of run with regex true
RunRegexTerm ==
    /\ pc = "run" /\ idx <= Len(terms) /\ regex # FALSE
    /\ ret' = ret \o DictsOf(RegexTermEntries(terms[idx]), include_password)
    /\ idx' = idx + 1
    /\ UNCHANGED <<keepass, terms, regex, include_password, pc, out, err,
                   gpath, gret, stack, sret>>

\* return ret
RunReturn ==
    /\ pc = "run" /\ idx > Len(terms)
    /\ out' = ret /\ pc' = "done"
    /\ UNCHANGED <<keepass, terms, regex, include_password, idx, ret, err,
                   gpath, gret, stack, sret>>

Next == RunExactTerm \/ RunRegexTerm \/ RunReturn

Spec == Init /\ [][Next]_vars

(* ---------------------------- the group resolver alone ----------------- *)
AB == <<"a", "b">>

\* every tree over the groups, with names a, b and ab
GroupStores ==
    {[gparent |-> gp, gname |-> gn,
      egroup |-> [e \in EntryIds |-> Root], etitle |-> [e \in EntryIds |-> X],
      epassword |-> [e \in EntryIds |-> Text("secret")],
      ehistory |-> [e \in EntryIds |-> <<>>]] :
        gp \in {f \in [GroupIds -> AllGroups] : \A g \in GroupIds : f[g] < g},
        gn \in [GroupIds -> {A, B, AB}]}

\* path expressions that are not the path of a group: patterns with '.'
PatternChoices == {<<".">>, JoinPath(<<".">>, B), JoinPath(A, <<".">>)}

InitGroups ==
    /\ keepass \in GroupStores
    /\ gpath \in {GroupPath(g) : g \in AllGroups} \cup PatternChoices
    /\ gret = <<>>
    /\ pc = "resolve"
    /\ terms = <<>> /\ regex = TRUE /\ include_password = FALSE
    /\ idx = 1 /\ ret = <<>> /\ out = <<>> /\ err = "none"
    /\ stack = <<>> /\ sret = <<>>

\* self._get_groups(path), parent_group defaulting to the root group
ResolveGroups ==
    /\ pc = "resolve"
    /\ gret' = GetGroups(gpath, Root)
    /\ pc' = "resolved"
    /\ UNCHANGED <<keepass, terms, regex, include_password, idx, ret, out, err,
                   gpath, stack, sret>>

NextGroups == ResolveGroups

SpecGroups == InitGroups /\ [][NextGroups]_vars

(* ---------------------------- the serializer alone --------------------- *)
\* the stores of the serializer: any history lists, cyclic ones included
SerStores ==
    {[gparent |-> [g \in GroupIds |-> Root],
      gname |-> [g \in GroupIds |-> IF g % 2 = 1 THEN A ELSE B],
      egroup |-> [e \in EntryIds |-> 1], etitle |-> [e \in EntryIds |-> X],
      epassword |-> pw, ehistory |-> h] :
        pw \in [EntryIds -> {Null, Text("secret")}],
        h \in [EntryIds -> SeqsUpTo(EntryIds, MaxHistory)]}

\* a frame of _entry_to_dict: its two arguments, and the records of the
\* history snapshots converted so far
Frame(e, inc_password) == [entry |-> e, include_password |-> inc_password, history |-> <<>>]

InitSer ==
    /\ keepass \in SerStores
    /\ include_password \in BOOLEAN
    /\ stack = <<Frame(1, include_password)>>
    /\ sret = <<>>
    /\ pc = "convert" /\ err = "none"
    /\ terms = <<>> /\ regex = FALSE /\ idx = 1 /\ ret = <<>> /\ out = <<>>
    /\ gpath = <<>> /\ gret = <<>>

Top == stack[Len(stack)]

\* the list comprehension of line 120 calls _entry_to_dict on the next snapshot
SerCall ==
    /\ pc = "convert"
    /\ Len(Top.history) < Len(keepass.ehistory[Top.entry])
    /\ Len(stack) < RecursionLimit
    /\ stack' = Append(stack, Frame(keepass.ehistory[Top.entry][Len(Top.history) + 1],
                                   HistoryFlag(Top.include_password)))
    /\ UNCHANGED <<keepass, terms, regex, include_password, pc, idx, ret, out, err,
                   gpath, gret, sret>>

\* the same call with the interpreter's stack exhausted
SerOverflow ==
    /\ pc = "convert"
    /\ Len(Top.history) < Len(keepass.ehistory[Top.entry])
    /\ Len(stack) >= RecursionLimit
    /\ pc' = "raised" /\ err' = "RecursionError"
    /\ UNCHANGED <<keepass, terms, regex, include_password, idx, ret, out,
                   gpath, gret, stack, sret>>

\* the rest of _entry_to_dict, once every snapshot is converted: return ret
SerReturn ==
    /\ pc = "convert"
    /\ Len(Top.history) = Len(keepass.ehistory[Top.entry])
    /\ LET rec == BuildRecord(Top.entry, Top.include_password, Top.history)
       IN IF Len(stack) = 1
          THEN /\ sret' = <<rec>> /\ pc' = "done" /\ stack' = <<>>
          ELSE /\ stack' = [SubSeq(stack, 1, Len(stack) - 1) EXCEPT
                              ![Len(stack) - 1].history = Append(@, rec)]
               /\ UNCHANGED <<sret, pc>>
    /\ UNCHANGED <<keepass, terms, regex, include_password, idx, ret, out, err,
                   gpath, gret>>

NextSer == SerCall \/ SerOverflow \/ SerReturn

SpecSer == InitSer /\ [][NextSer]_vars

(* ---------------------------- properties ------------------------------- *)
\* the entry a record was made from
EntryOf(rec) == CHOOSE e \in EntryIds : ToString(e) = rec.uuid.repr

\* group a and its subgroup a/b exist and each directly holds an entry titled x
HasAandAB ==
    \E ga, gb \in GroupIds, ea, eb \in EntryIds :
        /\ GroupPath(ga) = A /\ GroupPath(gb) = JoinPath(A, B)
        /\ keepass.egroup[ea] = ga /\ keepass.egroup[eb] = gb
        /\ keepass.etitle[ea] = X /\ keepass.etitle[eb] = X

\* C1: in regex mode, on a tree where group a and subgroup a/b each directly
\* hold an entry titled x, the term a/x returns only entries owned by a and
\* the term a/b/x only entries owned by a/b: every returned entry's owning
\* group has the term's full group path, never an ancestor or a descendant.
C1_OnlyEntriesOfThePathGroup ==
    (/\ pc = "done" /\ regex = TRUE /\ HasAandAB
     /\ terms \in {<<JoinPath(A, X)>>, <<JoinPath(JoinPath(A, B), X)>>})
        => \A k \in 1..Len(out) : out[k].group = RSplit1(terms[1])[1]

\* C2: in regex mode a lookup that returns a result list had no term with
\* zero matching entries; such a term makes the lookup fail.
C2_RegexZeroMatchFails ==
    (pc = "done" /\ regex = TRUE)
        => \A j \in 1..Len(terms) : RegexTermEntries(terms[j]) # <<>>

\* the entries below candidate group g whose title the pattern matches
MatchesUnder(title, g) ==
    {e \in EntryIds : IsUnder(keepass.egroup[e], g) /\ ReSearch(title, keepass.etitle[e])}

RECURSIVE SumMatches(_, _)
SumMatches(title, groups) ==
    IF groups = <<>> THEN 0
    ELSE Cardinality(MatchesUnder(title, Head(groups))) + SumMatches(title, Tail(groups))

\* the number of records term j contributes in regex mode
TermCount(j) == SumMatches(TermTitle(terms[j]), TermGroups(terms[j]))

RECURSIVE CountBefore(_)
\* the number of records the terms before term j contribute
CountBefore(j) == IF j = 1 THEN 0 ELSE CountBefore(j - 1) + TermCount(j - 1)

\* C3 as stated: a successful lookup returns one element per input term.
C3_OneElementPerTerm == pc = "done" => Len(out) = Len(terms)

\* C3 as amended: a successful lookup returns a flat list of Records in term
\* order. In exact mode it has one Record per term, the record of an entry
\* with that path. In regex mode term j contributes one Record for every pair
\* of a candidate group and a matching entry below it, so the length is the
\* sum of these counts and not the number of terms.
C3_FlatListInTermOrder ==
    pc = "done" =>
        /\ \A k \in 1..Len(out) : "history" \in DOMAIN out[k]
        /\ regex = FALSE =>
              /\ Len(out) = Len(terms)
              /\ \A j \in 1..Len(terms) : EntryPath(EntryOf(out[j])) = terms[j]
        /\ regex = TRUE =>
              /\ Len(out) = CountBefore(Len(terms) + 1)
              /\ \A j \in 1..Len(terms) :
                    \A k \in (CountBefore(j) + 1)..CountBefore(j + 1) :
                        /\ ReSearch(TermTitle(terms[j]), out[k].title.repr)
                        /\ \E g \in SeqToSet(TermGroups(terms[j])) :
                              IsUnder(keepass.egroup[EntryOf(out[k])], g)

\* a regex lookup of two terms that returned three records
C3_Witness == pc = "done" /\ regex = TRUE /\ Len(terms) = 2 /\ Len(out) = 3

RECURSIVE NoPasswordDeep(_)
\* neither the record nor a record nested in its history has a password key
NoPasswordDeep(rec) ==
    /\ "password" \notin DOMAIN rec
    /\ \A k \in 1..Len(rec.history) : NoPasswordDeep(rec.history[k])

\* C4: a record made with include_password false has no password key, nor has
\* any record nested in its history; a record made with include_password true
\* has one when the entry defines a password.
C4_PasswordOnlyOnRequest ==
    pc = "done" =>
        /\ include_password = FALSE => NoPasswordDeep(sret[1])
        /\ (include_password = TRUE /\ keepass.epassword[1] # Null)
              => ("password" \in DOMAIN sret[1] /\ sret[1].password = Text("secret"))

\* an entry with a password and a history snapshot with a password, converted
\* without passwords
C4_Witness ==
    /\ pc = "done" /\ include_password = FALSE
    /\ keepass.epassword[1] # Null
    /\ Len(sret[1].history) = 1
    /\ keepass.epassword[keepass.ehistory[1][1]] # Null

RECURSIVE ReachableIn(_, _)
\* the entries on the history chains of e, of length at most n
ReachableIn(e, n) ==
    IF n = 0 THEN {}
    ELSE LET direct == SeqToSet(keepass.ehistory[e])
         IN direct \cup UNION {ReachableIn(d, n - 1) : d \in direct}

\* some entry on the chains of entry 1, or entry 1, is in its own history chain
HistoryCyclic == \E e \in ReachableIn(1, NumEntries) \cup {1} : e \in ReachableIn(e, NumEntries)

RECURSIVE HistoryDepth(_, _)
\* the number of levels of entries at and below e, cut at n levels
HistoryDepth(e, n) ==
    IF n = 0 THEN 0
    ELSE LET below == {HistoryDepth(d, n - 1) : d \in SeqToSet(keepass.ehistory[e])}
         IN 1 + (IF below = {} THEN 0 ELSE CHOOSE m \in below : \A o \in below : o <= m)

\* C5: serialization terminates: on a store with acyclic history the recursion
\* is no deeper than the history, and on a cyclic history it fails with an
\* integrity error.
C5_CyclicHistoryIntegrityError ==
    /\ ~HistoryCyclic => (Len(stack) <= HistoryDepth(1, NumEntries) /\ pc # "raised")
    /\ HistoryCyclic => (pc # "done" /\ (pc = "raised" => err = "IntegrityError"))

\* every segment of the path expression is non-empty
NoEmptySegment(path) ==
    /\ path # <<>> /\ path[1] # Slash /\ path[Len(path)] # Slash
    /\ \A k \in 1..(Len(path) - 1) : ~(path[k] = Slash /\ path[k + 1] = Slash)

\* C6: the resolver returns exactly the groups matched at the last segment:
\* every returned group lies as many levels below the root as the path
\* expression has segments.
C6_OnlyLastSegmentGroups ==
    (pc = "resolved" /\ NoEmptySegment(gpath))
        => \A k \in 1..Len(gret) : Depth(gret[k]) = NumSegments(gpath)

\* C7 as stated: resolving the path of any group of the tree returns that group.
C7_RoundTripEveryGroup ==
    pc = "resolved" =>
        \A g \in AllGroups : gpath = GroupPath(g) => g \in SeqToSet(gret)

\* C7 as amended: resolving the path of any group other than the root returns
\* that group (the names being non-empty literals without '/').
C7_RoundTripBelowRoot ==
    pc = "resolved" =>
        \A g \in GroupIds : gpath = GroupPath(g) => g \in SeqToSet(gret)

\* the path of a group two levels down was resolved and the group returned
C7_Witness ==
    /\ pc = "resolved"
    /\ \E g \in GroupIds : Depth(g) = 2 /\ gpath = GroupPath(g) /\ g \in SeqToSet(gret)

\* C8: in exact mode a successful lookup holds for every term the record of an
\* entry with that path; a term with no entry makes the lookup fail with a
\* not-found error, and no output is returned.
C8_ExactNotFoundError ==
    regex = FALSE =>
        /\ pc = "done" => \A j \in 1..Len(terms) : EntryPath(EntryOf(out[j])) = terms[j]
        /\ pc = "raised" => (err = "NotFoundError" /\ out = <<>>)

\* C9: an attribute that is passed through keeps its native value when it is a
\* text, a boolean, a mapping or a list, is the empty text when it is null,
\* and is its text representation otherwise.
C9_NativeValues ==
    pc = "done" =>
        \A attr \in DOMAIN sret[1] \ (SpecialAttributes \cup {"password"}) :
            LET v == GetAttr(1, attr)
            IN sret[1][attr] =
                  IF v.type \in {"text", "bool", "mapping", "list"} THEN v
                  ELSE IF v.type = "null" THEN Text("") ELSE Str(v)

\* C10: in regex mode no entry is serialized more than once for one term.
C10_NoEntryTwice ==
    (pc = "done" /\ regex = TRUE /\ Len(terms) = 1)
        => \A j, k \in 1..Len(out) : j # k => out[j].uuid # out[k].uuid

====
